---------------------------- MODULE Spec2Model ----------------------------
(***************************************************************************)
(* A model of src/model.py: the Encodings layer (token + positional        *)
(* embedding), the Attention layer (multi-head self attention) and the     *)
(* _Model wrapper that stacks attention layers, pools and projects.        *)
(*                                                                         *)
(* Tensors are modelled by their shape (exactly as TensorFlow computes     *)
(* it: broadcasting, reshape with an inferred -1 axis, matmul, transpose)  *)
(* together with the expression that produced their values.  An operation  *)
(* that TensorFlow rejects yields Raised, which ends the forward call.     *)
(* The numeric content of the softmax (lines 139-141) and of the pooling   *)
(* (lines 204-207) is modelled exactly on small integer tensors in the     *)
(* specifications SpecAttention and SpecPool.                              *)
(***************************************************************************)
EXTENDS Integers, Sequences, FiniteSets, TLC

\* ------------------------------------------------------------------ bounds
MaxDim == 3
MaxLen == 2
MaxHeads == 2
MaxLayers == 2

EmbeddingTypes == {"SIN_COS", "RANDOM"}
AggMethods == {"TOKEN", "SUM"}
HeadSizes == {2}
BatchSizes == {2}
VocabSizes == {0}
\* the outcomes of the random initialisation of the attention weights
Seeds == {1, 2}

VARIABLES
  encodings,        \* the Encodings layer: its attributes (lines 37-46)
  model,            \* the _Model layer: its attributes (lines 179-185)
  built,            \* whether build has run
  att_layers,       \* self.att_layers (line 189)
  pc,               \* the position of the forward call
  input,            \* the argument of the call in progress
  op,               \* local op of _Model.call
  att_op,           \* local att_op of _Model.call
  att_scores_list,  \* local att_scores_list of _Model.call
  i,                \* the loop index of line 201
  result,           \* what the call returned (or Raised)
  log,              \* the layers run by the call in progress, in order
  memo,             \* one earlier call: its input and what it returned
  query_layer,      \* SpecAttention: query_layer of line 134
  key_layer,        \* SpecAttention: key_layer of line 135
  head_size_n,      \* SpecAttention: attention_head_size
  attention_probs,  \* SpecAttention: attention_probs of line 141
  pool_in,          \* SpecPool: att_op at line 204
  pool_out          \* SpecPool: the pooled vectors under both agg_methods

vars == <<encodings, model, built, att_layers, pc, input, op, att_op,
          att_scores_list, i, result, log, memo,
          query_layer, key_layer, head_size_n, attention_probs,
          pool_in, pool_out>>

callVars == <<encodings, model, built, att_layers, pc, input, op, att_op,
              att_scores_list, i, result, log, memo>>
attnVars == <<query_layer, key_layer, head_size_n, attention_probs>>
poolVars == <<pool_in, pool_out>>

\* ----------------------------------------------------------------- tensors
Term(o, args, data) == [op |-> o, args |-> args, data |-> data]

Tensor(shape, val) == [ok |-> TRUE, shape |-> shape, val |-> val]

\* the value of an operation that raised
Raised == [ok |-> FALSE, shape |-> <<>>, val |-> Term("raise", <<>>, <<>>)]

\* a local variable that is not bound
Unbound == [ok |-> FALSE, shape |-> <<>>, val |-> Term("unbound", <<>>, <<>>)]

RECURSIVE Prod(_)
Prod(s) == IF s = <<>> THEN 1 ELSE Head(s) * Prod(Tail(s))

Max(a, b) == IF a >= b THEN a ELSE b

\* s without its element at (1-based) position p
DropAt(s, p) == [j \in 1..(Len(s) - 1) |-> IF j < p THEN s[j] ELSE s[j + 1]]

\* NumPy/TensorFlow broadcasting of two shapes, aligned at the last axis
BroadcastOk(a, b) ==
  \A j \in 1..(IF Len(a) <= Len(b) THEN Len(a) ELSE Len(b)) :
    LET x == a[Len(a) - j + 1]
        y == b[Len(b) - j + 1]
    IN  x = y \/ x = 1 \/ y = 1

BroadcastShape(a, b) ==
  LET n == Max(Len(a), Len(b))
      at(s, j) == IF j > n - Len(s) THEN s[j - (n - Len(s))] ELSE 1
      dim(x, y) == IF x = 1 THEN y ELSE x
  IN  [j \in 1..n |-> dim(at(a, j), at(b, j))]

tf_add(a, b) ==
  IF ~a.ok \/ ~b.ok \/ ~BroadcastOk(a.shape, b.shape) THEN Raised
  ELSE Tensor(BroadcastShape(a.shape, b.shape), Term("add", <<a.val, b.val>>, <<>>))

\* x * sqrt(n)  and  x / sqrt(n)
tf_mul_sqrt(x, n) ==
  IF ~x.ok THEN Raised ELSE Tensor(x.shape, Term("mul_sqrt", <<x.val>>, <<n>>))

tf_div_sqrt(x, n) ==
  IF ~x.ok THEN Raised ELSE Tensor(x.shape, Term("div_sqrt", <<x.val>>, <<n>>))

tf_range(n) == Tensor(<<n>>, Term("range", <<>>, <<n>>))

\* an Embedding layer (its table named by name) of input_dim rows and
\* output_dim columns, applied to ids
Embedding(name, input_dim, output_dim, ids) ==
  IF ~ids.ok THEN Raised
  ELSE Tensor(Append(ids.shape, output_dim),
              Term(name, <<ids.val>>, <<input_dim, output_dim>>))

\* a Dense layer (kernel and bias named by name and w) of the given units
Dense(name, w, units, x) ==
  IF ~x.ok \/ Len(x.shape) < 2 THEN Raised
  ELSE Tensor([x.shape EXCEPT ![Len(x.shape)] = units],
              Term(name, <<x.val>>, Append(w, units)))

\* tf.reshape: at most one axis of the target is -1 and is inferred
tf_reshape(x, target) ==
  LET total == Prod(x.shape)
      holes == {j \in 1..Len(target) : target[j] = -1}
      known == Prod([j \in 1..Len(target) |-> IF target[j] = -1 THEN 1 ELSE target[j]])
  IN  IF ~x.ok \/ Cardinality(holes) > 1 THEN Raised
      ELSE IF holes = {}
        THEN IF known = total
               THEN Tensor(target, Term("reshape", <<x.val>>, target))
               ELSE Raised
      ELSE IF known = 0 \/ total % known # 0 THEN Raised
      ELSE LET shape == [j \in 1..Len(target) |->
                           IF target[j] = -1 THEN total \div known ELSE target[j]]
           IN  Tensor(shape, Term("reshape", <<x.val>>, shape))

\* tf.transpose with a 0-based permutation, as in the source
tf_transpose(x, perm) ==
  IF ~x.ok \/ Len(perm) # Len(x.shape) THEN Raised
  ELSE Tensor([j \in 1..Len(perm) |-> x.shape[perm[j] + 1]],
              Term("transpose", <<x.val>>, perm))

\* tf.matmul of two rank-4 tensors, the second one transposed or not
tf_matmul(a, b, transpose_b) ==
  IF ~a.ok \/ ~b.ok \/ Len(a.shape) # 4 \/ Len(b.shape) # 4 THEN Raised
  ELSE LET rows == IF transpose_b THEN b.shape[4] ELSE b.shape[3]
           cols == IF transpose_b THEN b.shape[3] ELSE b.shape[4]
       IN  IF a.shape[1] # b.shape[1] \/ a.shape[2] # b.shape[2] \/ a.shape[4] # rows
             THEN Raised
             ELSE Tensor(<<a.shape[1], a.shape[2], a.shape[3], cols>>,
                         Term(IF transpose_b THEN "matmul_T" ELSE "matmul",
                              <<a.val, b.val>>, <<>>))

\* tf.nn.softmax(x, axis=-1)
tf_softmax(x) ==
  IF ~x.ok \/ Len(x.shape) < 1 THEN Raised
  ELSE Tensor(x.shape, Term("softmax", <<x.val>>, <<-1>>))

\* tf.gather(x, 0, axis=1)
tf_gather0(x) ==
  IF ~x.ok \/ Len(x.shape) < 2 THEN Raised
  ELSE IF x.shape[2] < 1 THEN Raised
  ELSE Tensor(DropAt(x.shape, 2), Term("gather", <<x.val>>, <<0, 1>>))

\* tf.reduce_sum(x, axis=1)
tf_reduce_sum1(x) ==
  IF ~x.ok \/ Len(x.shape) < 2 THEN Raised
  ELSE Tensor(DropAt(x.shape, 2), Term("reduce_sum", <<x.val>>, <<1>>))

\* tf.convert_to_tensor of a Python list of tensors
tf_convert_to_tensor(list) ==
  IF \E j \in 1..Len(list) : ~list[j].ok THEN Raised
  ELSE IF list = <<>> THEN Tensor(<<0>>, Term("stack", <<>>, <<>>))
  ELSE IF \E j \in 1..Len(list) : list[j].shape # list[1].shape THEN Raised
  ELSE Tensor(<<Len(list)>> \o list[1].shape,
              Term("stack", [j \in 1..Len(list) |-> list[j].val], <<>>))

\* --------------------------------------------------------------- Encodings
\* the default of the parameter n of get_sin_pos_emb_mat
n_default == 10000

\* one entry of the positional matrix: fn(k / n^(e/d)), or the initial zero
PosEntry(fn, k, e, d) == [fn |-> fn, k |-> k, n |-> n_default, e |-> e, d |-> d]

ZeroEntry == PosEntry("zero", 0, 0, 1)

\* lines 56-59: the inner loop over i, for row k
RECURSIVE sin_pos_row(_, _, _, _)
sin_pos_row(P, k, j, d) ==
  IF j >= d \div 2 THEN P
  ELSE sin_pos_row([P EXCEPT ![k][2 * j] = PosEntry("sin", k, 2 * j, d),
                             ![k][2 * j + 1] = PosEntry("cos", k, 2 * j, d)],
                   k, j + 1, d)

\* lines 55-59: the outer loop over k
RECURSIVE sin_pos_rows(_, _, _, _)
sin_pos_rows(P, k, seq_len, d) ==
  IF k >= seq_len + 1 THEN P
  ELSE sin_pos_rows(sin_pos_row(P, k, 0, d), k + 1, seq_len, d)

get_sin_pos_emb_mat_short(seq_len, d) ==
  sin_pos_rows([k \in 0..seq_len |-> [c \in 0..(d - 1) |-> ZeroEntry]], 0, seq_len - 1, d)

get_sin_pos_emb_mat(seq_len, d) ==
  sin_pos_rows([k \in 0..seq_len |-> [c \in 0..(d - 1) |-> ZeroEntry]], 0, seq_len, d)

Encodings_init(emb_dim, seq_length, vocab_size, pos_embedding, embedding_type) ==
  [embedding_dim |-> emb_dim,
   seq_length |-> seq_length,
   vocab_size |-> vocab_size,
   pos_embedding_flag |-> pos_embedding,
   embedding_type |-> embedding_type,
   sin_pos_embedding_mat |-> get_sin_pos_emb_mat(seq_length, emb_dim)]

Encodings_call(self, batch) ==
  LET embedding_out == Embedding("embedding", self.vocab_size + 2,
                                 self.embedding_dim, batch)
      scaled == tf_mul_sqrt(embedding_out, self.embedding_dim)
  IN  IF self.pos_embedding_flag /\ self.embedding_type = "SIN_COS"
        THEN tf_add(scaled, Embedding("sinusodial_pos_embedding", self.seq_length + 1,
                                      self.embedding_dim, tf_range(self.seq_length + 1)))
        ELSE tf_add(scaled, Embedding("random_pos_embedding", self.seq_length + 1,
                                      self.embedding_dim, tf_range(self.seq_length + 1)))

\* --------------------------------------------------------------- Attention
\* w names the weights the layer was initialised with
Attention_init(num_heads, emb_dim, w) ==
  [num_att_heads |-> num_heads,
   attention_head_size |-> emb_dim \div num_heads,
   all_head_size |-> num_heads * (emb_dim \div num_heads),
   emb_dim |-> emb_dim,
   w |-> w]

split_heads(self, input_layer, hidden_states_shape) ==
  tf_transpose(tf_reshape(input_layer, <<hidden_states_shape[1], -1,
                                         self.num_att_heads, self.attention_head_size>>),
               <<0, 2, 1, 3>>)

\* lines 145-147: the context layer reshaped for the output projection
context_reshape(self, context_layer, hidden_states_shape) ==
  tf_reshape(context_layer, <<hidden_states_shape[1], -1, self.emb_dim>>)

Attention_call(self, hidden_states) ==
  LET mixed_query_layer == Dense("query", self.w, self.all_head_size, hidden_states)
      mixed_key_layer == Dense("key", self.w, self.all_head_size, hidden_states)
      mixed_value_layer == Dense("value", self.w, self.all_head_size, hidden_states)
      hidden_states_shape == hidden_states.shape
      query == split_heads(self, mixed_query_layer, hidden_states_shape)
      key == split_heads(self, mixed_key_layer, hidden_states_shape)
      value == split_heads(self, mixed_value_layer, hidden_states_shape)
      attention_scores == tf_div_sqrt(tf_matmul(query, key, TRUE),
                                      self.attention_head_size)
      probs == tf_softmax(attention_scores)
      context_layer == tf_transpose(tf_matmul(probs, value, FALSE), <<0, 2, 1, 3>>)
      att_output == Dense("out", self.w, self.emb_dim,
                          context_reshape(self, context_layer, hidden_states_shape))
  IN  IF ~hidden_states.ok \/ Len(hidden_states.shape) < 1
        THEN [att_output |-> Raised, attention_probs |-> Raised]
        ELSE [att_output |-> att_output,
              attention_probs |-> IF att_output.ok THEN probs ELSE Raised]

\* ------------------------------------------------------------------ _Model
Model_init(emb_dim, num_heads, head_size, agg_method, num_att_layers) ==
  [num_heads |-> num_heads,
   emb_dim |-> emb_dim,
   agg_method |-> agg_method,
   head_dim |-> head_size,
   num_att_layers |-> num_att_layers]

build_one_more(self, seed) ==
  [j \in 1..(self.num_att_layers + 1) |-> Attention_init(self.num_heads, self.emb_dim, <<seed, j - 1>>)]

\* lines 189-191; seed is the outcome of the layers' random initialisation
build(self, seed) ==
  [j \in 1..self.num_att_layers |-> Attention_init(self.num_heads, self.emb_dim, <<seed, j - 1>>)]

maybe_build_always(self, seed) == build(self, seed)

\* Layer.__call__ runs build before the first call only
maybe_build(self, seed) == IF built THEN att_layers ELSE build(self, seed)

\* line 202: self.att_layers[i]
layer_at_first(idx) == att_layers[1]

layer_at(idx) == att_layers[idx + 1]

\* lines 204-207
aggregate(self, x) ==
  IF self.agg_method = "TOKEN" THEN tf_gather0(x) ELSE tf_reduce_sum1(x)

\* line 208
head(self, x) == Dense("head", <<>>, self.head_dim, x)

NoResult == [out |-> Unbound, att |-> Unbound]
RaisedResult == [out |-> Raised, att |-> Raised]
NoMemo == [input |-> Unbound, result |-> NoResult]
UnboundList == <<Unbound>>

LogEntry(layer, in, out, probs) ==
  [layer |-> layer, in |-> in, ok |-> out.ok, out |-> out.shape, probs |-> probs.shape]

\* the batches a caller passes: b sequences of l copies of the token id t
Lengths(seq_length) == {seq_length, seq_length + 1}

Batches(self) ==
  {Tensor(<<b, l>>, Term("batch", <<>>, <<t>>)) :
     b \in BatchSizes, l \in Lengths(self.seq_length), t \in {0, self.vocab_size + 1}}

\* --------------------------------------------------------------- the call
InitAttn ==
  /\ query_layer = <<>>
  /\ key_layer = <<>>
  /\ head_size_n = 0
  /\ attention_probs = <<>>

InitPool ==
  /\ pool_in = <<>>
  /\ pool_out = <<>>

InitCall ==
  /\ \E emb_dim \in 1..MaxDim, seq_length \in 1..MaxLen, vocab_size \in VocabSizes,
        pos_embedding \in BOOLEAN, embedding_type \in EmbeddingTypes,
        num_heads \in 1..MaxHeads, head_size \in HeadSizes, agg_method \in AggMethods,
        num_att_layers \in 0..MaxLayers :
       /\ encodings = Encodings_init(emb_dim, seq_length, vocab_size, pos_embedding,
                                     embedding_type)
       /\ model = Model_init(emb_dim, num_heads, head_size, agg_method, num_att_layers)
  /\ built = FALSE
  /\ att_layers = <<>>
  /\ pc = "idle"
  /\ input = Unbound
  /\ op = Unbound
  /\ att_op = Unbound
  /\ att_scores_list = UnboundList
  /\ i = -1
  /\ result = NoResult
  /\ log = <<>>
  /\ memo = NoMemo

Init == InitCall /\ InitAttn /\ InitPool

\* Layer.__call__: build on first use, then enter call
call_begin ==
  /\ pc = "idle"
  /\ \E batch \in Batches(encodings), seed \in Seeds :
       /\ input' = batch
       /\ att_layers' = maybe_build(model, seed)
  /\ built' = TRUE
  /\ result' = NoResult
  /\ log' = <<>>
  /\ pc' = "encodings"
  /\ UNCHANGED <<encodings, model, op, att_op, att_scores_list, i, memo>>
  /\ UNCHANGED <<attnVars, poolVars>>

\* lines 197-200
call_encodings ==
  /\ pc = "encodings"
  /\ LET out == Encodings_call(encodings, input)
     IN  /\ log' = Append(log, LogEntry(-1, input.shape, out, Raised))
         /\ IF out.ok
              THEN /\ op' = out
                   /\ att_op' = out
                   /\ att_scores_list' = <<>>
                   /\ i' = 0
                   /\ pc' = "layers"
                   /\ UNCHANGED result
              ELSE /\ pc' = "raised"
                   /\ result' = RaisedResult
                   /\ UNCHANGED <<op, att_op, att_scores_list, i>>
  /\ UNCHANGED <<encodings, model, built, att_layers, input, memo>>
  /\ UNCHANGED <<attnVars, poolVars>>

\* lines 201-203: one iteration of the loop
call_layer ==
  /\ pc = "layers"
  /\ i < model.num_att_layers
  /\ LET r == Attention_call(layer_at(i), att_op)
     IN  /\ log' = Append(log, LogEntry(i, att_op.shape, r.att_output, r.attention_probs))
         /\ IF r.att_output.ok
              THEN /\ att_op' = r.att_output
                   /\ att_scores_list' = Append(att_scores_list, r.attention_probs)
                   /\ i' = i + 1
                   /\ UNCHANGED <<pc, result>>
              ELSE /\ pc' = "raised"
                   /\ result' = RaisedResult
                   /\ UNCHANGED <<att_op, att_scores_list, i>>
  /\ UNCHANGED <<encodings, model, built, att_layers, input, op, memo>>
  /\ UNCHANGED <<attnVars, poolVars>>

\* lines 204-211, once the loop has ended
call_head ==
  /\ pc = "layers"
  /\ i >= model.num_att_layers
  /\ LET out == head(model, aggregate(model, att_op))
         att == tf_convert_to_tensor(att_scores_list)
     IN  IF out.ok /\ att.ok
           THEN /\ op' = out
                /\ result' = [out |-> out, att |-> att]
                /\ pc' = "done"
           ELSE /\ pc' = "raised"
                /\ result' = RaisedResult
                /\ UNCHANGED op
  /\ UNCHANGED <<encodings, model, built, att_layers, input, att_op, att_scores_list,
                 i, log, memo>>
  /\ UNCHANGED <<attnVars, poolVars>>

\* the call returns or raises: its frame is gone, the caller has the result
call_return ==
  /\ pc \in {"done", "raised"}
  /\ pc' = "idle"
  /\ op' = Unbound
  /\ att_op' = Unbound
  /\ att_scores_list' = UnboundList
  /\ i' = -1
  /\ \/ memo' = [input |-> input, result |-> result]
     \/ UNCHANGED memo
  /\ UNCHANGED <<encodings, model, built, att_layers, input, result, log>>
  /\ UNCHANGED <<attnVars, poolVars>>

Next == call_begin \/ call_encodings \/ call_layer \/ call_head \/ call_return

Spec == Init /\ [][Next]_vars

\* ------------------------------------------- the softmax of lines 139-141
\* on integer tensors, for one batch element and one head
AttnMaxLen == 2
AttnHeadSizes == {1, 2}
AttnValues == {-1, 1}
ExpBase == 2

RECURSIVE SumSeq(_)
SumSeq(s) == IF s = <<>> THEN 0 ELSE Head(s) + SumSeq(Tail(s))

RECURSIVE ProdSeq(_)
ProdSeq(s) == IF s = <<>> THEN 1 ELSE Head(s) * ProdSeq(Tail(s))

RECURSIVE MinSeq(_)
MinSeq(s) == IF Len(s) = 1 THEN s[1]
             ELSE LET m == MinSeq(Tail(s)) IN IF s[1] <= m THEN s[1] ELSE m

\* line 139: tf.matmul(query_layer, key_layer, transpose_b=True)
matmul_T(q, k) ==
  [l \in 1..Len(q) |-> [j \in 1..Len(k) |->
     SumSeq([h \in 1..Len(q[l]) |-> q[l][h] * k[j][h]])]]

\* exp((n - m) / sqrt(hs)) for integers n >= m: the (n - m)-th power of the
\* real exp(1 / sqrt(hs)) > 1, for which the integer ExpBase stands
Exp(n, m, hs) == ExpBase ^ (n - m)

\* a softmax taken along the query axis (axis=-2) instead of the key axis
softmax_axis_q(scores, hs) ==
  [l \in 1..Len(scores) |-> [j \in 1..Len(scores[l]) |->
     LET col == [r \in 1..Len(scores) |-> scores[r][j]]
         m == MinSeq(col)
     IN  [num |-> Exp(scores[l][j], m, hs),
          den |-> SumSeq([r \in 1..Len(col) |-> Exp(col[r], m, hs)])]]]

\* lines 140-141: softmax(scores / sqrt(hs), axis=-1); each probability is
\* the fraction num / den
softmax_scaled(scores, hs) ==
  [l \in 1..Len(scores) |-> [j \in 1..Len(scores[l]) |->
     LET m == MinSeq(scores[l])
     IN  [num |-> Exp(scores[l][j], m, hs),
          den |-> SumSeq([r \in 1..Len(scores[l]) |-> Exp(scores[l][r], m, hs)])]]]

InitAttention ==
  /\ \E L \in 1..AttnMaxLen, hs \in AttnHeadSizes :
       /\ head_size_n = hs
       /\ query_layer \in [1..L -> [1..hs -> AttnValues]]
       /\ key_layer \in [1..L -> [1..hs -> AttnValues]]
  /\ attention_probs = <<>>

attention_probs_step ==
  /\ attention_probs = <<>>
  /\ attention_probs' = softmax_scaled(matmul_T(query_layer, key_layer), head_size_n)
  /\ UNCHANGED <<query_layer, key_layer, head_size_n>>
  /\ UNCHANGED <<callVars, poolVars>>

\* ------------------------------------------- the pooling of lines 204-207
\* on integer tensors, for one batch element
PoolMaxLen == 2
PoolDims == {1, 2}
PoolValues == {-1, 0, 1}

\* a gather of the last position instead of position 0
pool_token_last(x) == x[Len(x)]

\* line 205: tf.gather(att_op, 0, axis=1)
pool_token(x) == x[1]

\* line 207: tf.reduce_sum(att_op, axis=1)
pool_sum(x) == [c \in 1..Len(x[1]) |-> SumSeq([l \in 1..Len(x) |-> x[l][c]])]

InitPooling ==
  /\ \E L \in 1..PoolMaxLen, D \in PoolDims : pool_in \in [1..L -> [1..D -> PoolValues]]
  /\ pool_out = <<>>

pool_step ==
  /\ pool_out = <<>>
  /\ pool_out' = [TOKEN |-> pool_token(pool_in), SUM |-> pool_sum(pool_in)]
  /\ UNCHANGED pool_in
  /\ UNCHANGED <<callVars, attnVars>>

\* a layer that is constructed and not called
IdleCall ==
  /\ encodings = Encodings_init(2, 1, 0, TRUE, "SIN_COS")
  /\ model = Model_init(2, 1, 2, "TOKEN", 1)
  /\ built = FALSE
  /\ att_layers = <<>>
  /\ pc = "idle"
  /\ input = Unbound
  /\ op = Unbound
  /\ att_op = Unbound
  /\ att_scores_list = UnboundList
  /\ i = -1
  /\ result = NoResult
  /\ log = <<>>
  /\ memo = NoMemo

InitSpecAttention == IdleCall /\ InitAttention /\ InitPool

NextAttention == attention_probs_step

SpecAttention == InitSpecAttention /\ [][NextAttention]_vars

InitSpecPool == IdleCall /\ InitAttn /\ InitPooling

NextPool == pool_step

SpecPool == InitSpecPool /\ [][NextPool]_vars

\* ------------------------------------------------------------- the claims
\* the sum of the fractions of a row is 1
RowSumIsOne(row) ==
  LET dens == [j \in 1..Len(row) |-> row[j].den]
      rest(j) == ProdSeq([m \in 1..Len(row) |-> IF m = j THEN 1 ELSE row[m].den])
  IN  SumSeq([j \in 1..Len(row) |-> row[j].num * rest(j)]) = ProdSeq(dens)

\* C1: for every query position the attention probabilities are >= 0 and
\* sum to 1 over the key positions, and the row has one probability per key
\* position (no position is masked out).
C1_ProbsRowsSumToOne ==
  attention_probs # <<>> =>
    /\ Len(attention_probs) = Len(query_layer)
    /\ \A l \in 1..Len(attention_probs) :
         /\ Len(attention_probs[l]) = Len(key_layer)
         /\ \A j \in 1..Len(attention_probs[l]) :
              attention_probs[l][j].num >= 0 /\ attention_probs[l][j].den > 0
         /\ RowSumIsOne(attention_probs[l])

\* two query positions, head size 2, and a row that is not uniform
C1_Witness ==
  /\ attention_probs # <<>>
  /\ Len(query_layer) = 2
  /\ head_size_n = 2
  /\ attention_probs[1][1].num # attention_probs[1][2].num

\* C2: Encodings.call on a batch of shape (batch, L), L = seq_length,
\* returns a tensor of shape (batch, L, D).
C2_EncodingsKeepsLength ==
  (Len(log) >= 1 /\ log[1].layer = -1 /\ log[1].in[2] = encodings.seq_length) =>
    /\ log[1].ok
    /\ log[1].out = <<log[1].in[1], encodings.seq_length, encodings.embedding_dim>>

\* C3: Attention.call on hidden states of shape (batch, L, D) returns an
\* output of shape (batch, L, D) and weights of shape (batch, heads, L, L),
\* for every num_heads in 1..D, whether or not it divides D.
C3_AttentionKeepsShape ==
  \A j \in 1..Len(log) :
    (log[j].layer >= 0 /\ Len(log[j].in) = 3 /\ model.num_heads <= model.emb_dim) =>
      /\ log[j].ok
      /\ log[j].out = log[j].in
      /\ log[j].probs = <<log[j].in[1], model.num_heads, log[j].in[2], log[j].in[2]>>

\* C4: for every valid configuration (num_heads divides emb_dim) a forward
\* call on a batch of shape (batch, L) returns a pooled output of shape
\* (batch, head_dim) and a stacked attention tensor of shape
\* (num_att_layers, batch, num_heads, L, L).
C4_ForwardShapes ==
  (/\ pc \in {"done", "raised"}
   /\ model.emb_dim % model.num_heads = 0
   /\ input.shape[2] = encodings.seq_length) =>
    /\ pc = "done"
    /\ result.out.shape = <<input.shape[1], model.head_dim>>
    /\ result.att.shape = <<model.num_att_layers, input.shape[1], model.num_heads,
                            encodings.seq_length, encodings.seq_length>>

\* C5: with pos_embedding false the encoder returns the token embeddings
\* scaled by sqrt(D) and adds no positional term; with pos_embedding true
\* it adds the sinusoidal term for SIN_COS and the learned one for RANDOM.
C5_FlagDecidesPositionalTerm ==
  pc = "layers" =>
    LET scaled == tf_mul_sqrt(Embedding("embedding", encodings.vocab_size + 2,
                                        encodings.embedding_dim, input),
                              encodings.embedding_dim)
    IN  IF encodings.pos_embedding_flag
          THEN /\ op.val.op = "add"
               /\ op.val.args[1] = scaled.val
               /\ op.val.args[2].op = IF encodings.embedding_type = "SIN_COS"
                                        THEN "sinusodial_pos_embedding"
                                        ELSE "random_pos_embedding"
          ELSE op = scaled

\* C6: for even D the positional matrix has seq_len + 1 rows and D columns,
\* entry (k, 2i) is sin(k / n^(2i/D)), entry (k, 2i+1) is cos(k / n^(2i/D)),
\* and no entry is left at its initial zero.
C6_SinCosMatrix ==
  LET P == encodings.sin_pos_embedding_mat
      L == encodings.seq_length
      D == encodings.embedding_dim
  IN  D % 2 = 0 =>
        /\ DOMAIN P = 0..L
        /\ \A k \in 0..L :
             /\ DOMAIN P[k] = 0..(D - 1)
             /\ \A j \in 0..(D \div 2 - 1) :
                  /\ P[k][2 * j] = [fn |-> "sin", k |-> k, n |-> 10000, e |-> 2 * j, d |-> D]
                  /\ P[k][2 * j + 1] = [fn |-> "cos", k |-> k, n |-> 10000, e |-> 2 * j, d |-> D]
             /\ \A c \in 0..(D - 1) : P[k][c].fn # "zero"

\* an even D, more than one position, and the last entry of the last row
C6_Witness ==
  /\ encodings.embedding_dim % 2 = 0
  /\ encodings.seq_length >= 2
  /\ encodings.sin_pos_embedding_mat[encodings.seq_length][encodings.embedding_dim - 1].fn
       = "cos"

\* C7 as stated: SUM pooling differs from TOKEN pooling whenever there is
\* more than one position, and equals it when there is one.
C7_SumDiffersFromToken ==
  pool_out # <<>> =>
    IF Len(pool_in) > 1 THEN pool_out.SUM # pool_out.TOKEN
    ELSE pool_out.SUM = pool_out.TOKEN

\* C7 as amended: SUM pooling equals TOKEN pooling exactly when the rows at
\* positions 1 and later sum to the zero vector; so they are equal when
\* there is a single position.
C7_SumEqualsTokenIffRestIsZero ==
  pool_out # <<>> =>
    /\ (pool_out.SUM = pool_out.TOKEN) <=>
         (\A c \in 1..Len(pool_in[1]) :
            SumSeq([l \in 1..(Len(pool_in) - 1) |-> pool_in[l + 1][c]]) = 0)
    /\ Len(pool_in) = 1 => pool_out.SUM = pool_out.TOKEN

\* more than one position, a first row that is not zero, and equal pooled
\* vectors
C7_Witness ==
  /\ pool_out # <<>>
  /\ Len(pool_in) > 1
  /\ \E c \in 1..Len(pool_in[1]) : pool_in[1][c] # 0
  /\ pool_out.SUM = pool_out.TOKEN

\* C8: a forward call on the input of an earlier call returns what the
\* earlier call returned, whatever was called in between.
C8_SameInputSameResult ==
  (pc \in {"done", "raised"} /\ memo.input = input) => result = memo.result

\* a second call on the same input, through two attention layers
C8_Witness ==
  /\ pc = "done"
  /\ memo.input = input
  /\ memo.result.out.ok
  /\ model.num_att_layers = 2
  /\ result.att.shape[1] = 2

\* C9: no step of a forward call changes the encoder, the model attributes
\* or, once built, the attention layers; the stack holds exactly
\* num_att_layers layers; the list of attention tensors starts empty.
C9_ForwardKeepsParameters ==
  [][/\ encodings' = encodings
     /\ model' = model
     /\ built => (built' /\ att_layers' = att_layers)
     /\ built' => Len(att_layers') = model.num_att_layers
     /\ (pc = "encodings" /\ pc' = "layers") => att_scores_list' = <<>>]_vars

\* a later call, after an earlier one has returned, about to run its layers
C9_Witness ==
  /\ built
  /\ memo # NoMemo
  /\ pc = "layers"
  /\ i = 0
  /\ att_scores_list = <<>>
  /\ Len(att_layers) = 2

\* the output of the first n attention layers, each fed the previous output
RECURSIVE StackOutput(_)
StackOutput(n) ==
  IF n = 0 THEN Encodings_call(encodings, input)
  ELSE Attention_call(att_layers[n], StackOutput(n - 1)).att_output

StackProbs(n) == Attention_call(att_layers[n], StackOutput(n - 1)).attention_probs

\* C10: the encoder runs once, then layers 0..num_att_layers-1 in index
\* order, each once and each on the previous output; the stacked attention
\* tensor holds the layers' probabilities in that order; the aggregation
\* and the head are applied to the last output.
C10_LayersRunInOrder ==
  /\ pc = "layers" =>
       /\ [j \in 1..Len(log) |-> log[j].layer] = [j \in 1..(i + 1) |-> j - 2]
       /\ att_op = StackOutput(i)
       /\ att_scores_list = [n \in 1..i |-> StackProbs(n)]
  /\ pc = "done" =>
       /\ [j \in 1..Len(log) |-> log[j].layer] =
            [j \in 1..(model.num_att_layers + 1) |-> j - 2]
       /\ result.out = head(model, aggregate(model, StackOutput(model.num_att_layers)))
       /\ result.att =
            tf_convert_to_tensor([n \in 1..model.num_att_layers |-> StackProbs(n)])

\* a call through two layers that has returned its result
C10_Witness ==
  /\ pc = "done"
  /\ model.num_att_layers = 2
  /\ Len(log) = 3
  /\ result.att.shape[1] = 2

=============================================================================
